---------------------------- MODULE Spec2Model ----------------------------
(***************************************************************************)
(* Model of the floorplan driver of PASTA/TAPA:                            *)
(*   - autobridge/main.py: annotate_floorplan and its helpers              *)
(*   - tapa/task_graph.py: the edges and vertices of the input document    *)
(*   - tapa/core.py: Program.__init__ (buffer module names) and            *)
(*     Program.generate_top_rtl (FIFO depth adjustment)                    *)
(* The floorplanner, the router, the latency balancer and the Slot class   *)
(* are modelled from the design document.                                  *)
(***************************************************************************)
EXTENDS Integers, Sequences, FiniteSets, TLC

VARIABLES
  design,              \* the program as constructed: part number, options, tasks,
                       \* ports, FIFOs, pre-assignments, buffer configurations
  fifos,               \* top_task.fifos (ordered dict): name, producer, consumer, depth
  config,              \* the document handed to annotate_floorplan
  pc,                  \* position of the driver
  trace,               \* the stages invoked so far, in order
  v2s,                 \* the floorplanner's answer: None or Some(assignment)
  fifo_to_path,        \* the router's answer, one path per edge of config
  fifo_name_to_depth,  \* the balancer's answer: edge name, latency, depth
  result,              \* the document returned by annotate_floorplan, if any
  exception,           \* the exception that ended the run, if any
  names,               \* names[r]: buffer module names generated in run r, if any
  hw,                  \* the signals of a generated upper-level module, if any
  tg,                  \* a top task and the graph extracted from it, if any
  gen,                 \* index_generator: its factors and what it has yielded
  adj                  \* the depth adjustment loop of generate_top_rtl, if any

driver == <<design, fifos, config, pc, trace, v2s, fifo_to_path,
            fifo_name_to_depth, result, exception, names>>

vars == <<design, fifos, config, pc, trace, v2s, fifo_to_path,
          fifo_name_to_depth, result, exception, names, hw, tg, gen, adj>>

(***************************************************************************)
(* Optional values: a key that a Python dict may lack.                     *)
(***************************************************************************)
None == <<>>
Some(x) == <<x>>
Get(o) == o[1]

Max(S) == CHOOSE m \in S : \A x \in S : x <= m
Min(S) == CHOOSE m \in S : \A x \in S : m <= x

Range(s) == {s[i] : i \in 1..Len(s)}

(***************************************************************************)
(* Bounds of the model.                                                    *)
(***************************************************************************)
MaxDepth == 2        \* nominal FIFO depths are 1..MaxDepth
MaxPorts == 2        \* external ports of the small designs
MaxHbmPorts == 17    \* HBM ports of the HBM-heavy designs
MaxBuffers == 2      \* distinct buffer configurations of a program
NameSize == 2        \* characters of a generated buffer name (6 in the code)
NumChars == 2        \* size of the alphabet of generated names (36 in the code)

(***************************************************************************)
(* Part numbers, as sequences of characters.                               *)
(***************************************************************************)
PN_U250 == <<"x","c","u","2","5","0","-","f","i","g","d","2","1","0","4","-","2","L","-","e">>
PN_U280 == <<"x","c","u","2","8","0","-","f","s","v","h","2","8","9","2","-","2","L","-","e">>
PN_U200 == <<"x","c","u","2","0","0","-","f","s","g","d","2","1","0","4","-","2","-","e">>
PN_U50 == <<"x","c","u","5","0","-","f","s","v","h","2","1","0","4","-","2","-","e">>
PN_U280_ES1 == <<"x","c","u","2","8","0","-","f","s","v","h","2","8","9","2","-","2","L","-","e","-","e","s","1">>
PN_NONEXISTENT == <<"x","c","-","n","o","n","e","x","i","s","t","e","n","t">>

PartNums == {PN_U250, PN_U280, PN_U200, PN_U50, PN_U280_ES1, PN_NONEXISTENT}

PREFIX_U250 == <<"x","c","u","2","5","0">>
PREFIX_U280 == <<"x","c","u","2","8","0">>
PREFIX_U200 == <<"x","c","u","2","0","0">>
PREFIX_U50 == <<"x","c","u","5","0">>

\* str.startswith
StartsWith(s, p) == Len(s) >= Len(p) /\ SubSeq(s, 1, Len(p)) = p

\* the catalogue of supported chips, by part-number prefix
SupportedPrefixes == {PREFIX_U250, PREFIX_U280, PREFIX_U200, PREFIX_U50}

\* autobridge.analyze.is_device_supported: a predicate of the part number
is_device_supported(pn) == \E p \in SupportedPrefixes : StartsWith(pn, p)

\* get_board_num: Some(board), or None where the code raises NotImplementedError
get_board_num(pn) ==
  IF pn = PN_U250 THEN Some("U250")
  ELSE IF pn = PN_U280 THEN Some("U280")
  ELSE IF pn = PN_U200 THEN Some("U200")
  ELSE IF pn = PN_U50 THEN Some("U50")
  ELSE None

\* get_floorplan_params: whether the part is taken for an HBM device
is_u280(pn) == StartsWith(pn, PREFIX_U280)
is_u50(pn) == StartsWith(pn, PREFIX_U50)


(***************************************************************************)
(* Slots of the device model.  A slot is identified by its SLR and by the  *)
(* half of the SLR it covers: "L", "R", or "F" for a slot that spans the   *)
(* full SLR (the granularity of an SLR-level floorplan).                   *)
(***************************************************************************)
Slrs == {0, 1}
HalfSlots == [slr : Slrs, half : {"L", "R"}]
FullSlots == [slr : Slrs, half : {"F"}]
Slots == HalfSlots \cup FullSlots

getSLR(s) == s.slr
isHalfSLRSlot(s) == s.half \in {"L", "R"}
isLeftHalf(s) == s.half = "L"
isRightHalf(s) == s.half = "R"
\* the RTL module name of a slot is a function of its coordinates alone
getRTLModuleName(s) == <<"SLOT", s.slr, s.half>>

\* slots that share an edge in the grid
Adjacent(a, b) ==
  \/ a.slr = b.slr /\ a.half # b.half /\ isHalfSLRSlot(a) /\ isHalfSLRSlot(b)
  \/ a.half = b.half /\ (a.slr = b.slr + 1 \/ b.slr = a.slr + 1)

\* the simple paths from a to b that avoid the slots in seen
RECURSIVE SimplePathsFrom(_, _, _)
SimplePathsFrom(a, b, seen) ==
  IF a = b THEN {<<a>>}
  ELSE UNION {{<<a>> \o p : p \in SimplePathsFrom(n, b, seen \cup {a})} :
              n \in {m \in Slots \ (seen \cup {a}) : Adjacent(a, m)}}

SimplePaths(a, b) == SimplePathsFrom(a, b, {})

(***************************************************************************)
(* Names.  A FIFO name is <<base, kind, n>>: "plain" is base, "under" is   *)
(* base_n and "bracket" is base[n] (an element of a streams array).        *)
(***************************************************************************)
\* rtl.sanitize_array_name: base[n] becomes base_n
sanitize_array_name(name) ==
  IF name[2] = "bracket" THEN <<name[1], "under", name[3]>> ELSE name

\* re.sub(r'_(\d+)$', r'[\1]', fifo_name): base_n becomes base[n]
streams_fifo_name(name) ==
  IF name[2] = "under" THEN <<name[1], "bracket", name[3]>> ELSE name

\* an ordered dict as a sequence of records with a field "name":
\* assigning to an existing key keeps the key's position
HasKey(d, k) == \E i \in 1..Len(d) : d[i].name = k
KeyIndex(d, k) == CHOOSE i \in 1..Len(d) : d[i].name = k
DictPut(d, rec) ==
  IF HasKey(d, rec.name) THEN [d EXCEPT ![KeyIndex(d, rec.name)] = rec]
  ELSE Append(d, rec)

RECURSIVE DictFromSeq(_, _)
DictFromSeq(d, recs) ==
  IF recs = <<>> THEN d ELSE DictFromSeq(DictPut(d, Head(recs)), Tail(recs))

(***************************************************************************)
(* tapa/task_graph.py: the vertices and edges of the input document.       *)
(***************************************************************************)
TaskVertexName(i) == <<"TASK_VERTEX", i>>
PortVertexName(arg) == <<"PORT_VERTEX", arg>>

Edge(name, prod, cons, depth, cat, inst) ==
  [name |-> name, produced_by |-> prod, consumed_by |-> cons, depth |-> depth,
   category |-> cat, instance |-> inst, path |-> None, adjusted_depth |-> None]

Vertex(name, cat, port_cat, arg) ==
  [name |-> name, category |-> cat, port_cat |-> port_cat, top_arg_name |-> arg,
   floorplan_region |-> None, SLR |-> None]

\* get_fifo_edges: the FIFOs with a producer and a consumer, by sanitized name
RECURSIVE FifoEdgeRecs(_)
FifoEdgeRecs(fs) ==
  IF fs = <<>> THEN <<>>
  ELSE LET f == Head(fs) IN
       IF f.produced_by = None \/ f.consumed_by = None
       THEN FifoEdgeRecs(Tail(fs))
       ELSE <<Edge(<<"FIFO_EDGE", sanitize_array_name(f.name)>>,
                   TaskVertexName(Get(f.produced_by)),
                   TaskVertexName(Get(f.consumed_by)),
                   f.depth, "FIFO_EDGE",
                   Some(sanitize_array_name(f.name)))>>
            \o FifoEdgeRecs(Tail(fs))

get_fifo_edges(fs) == DictFromSeq(<<>>, FifoEdgeRecs(fs))

\* get_axi_edges: one edge per mmap argument, from its port vertex to the task
RECURSIVE AxiEdgeRecs(_)
AxiEdgeRecs(ps) ==
  IF ps = <<>> THEN <<>>
  ELSE LET p == Head(ps) IN
       IF p.is_mmap
       THEN <<Edge(<<"AXI_EDGE", p.arg, p.instance>>, PortVertexName(p.arg),
                   TaskVertexName(p.instance), 0, "AXI_EDGE", None)>>
            \o AxiEdgeRecs(Tail(ps))
       ELSE AxiEdgeRecs(Tail(ps))

get_axi_edges(ps) == DictFromSeq(<<>>, AxiEdgeRecs(ps))

\* Instance.Arg.mmap_name: the argument name, qualified by the instance when
\* the mmap is shared
mmap_name(p) == IF p.shared THEN <<p.arg, p.instance>> ELSE <<p.arg>>

AsyncMmapVertexName(p) == <<"ASYNC_MMAP_VERTEX", mmap_name(p)>>

\* get_async_mmap_edges: one edge per async_mmap argument, from its
\* async_mmap instance to the task
RECURSIVE AsyncMmapEdgeRecs(_)
AsyncMmapEdgeRecs(ps) ==
  IF ps = <<>> THEN <<>>
  ELSE LET p == Head(ps) IN
       IF p.is_async_mmap
       THEN <<Edge(<<"ASYNC_MMAP_EDGE", mmap_name(p), p.instance>>,
                   AsyncMmapVertexName(p), TaskVertexName(p.instance), 0,
                   "ASYNC_MMAP_EDGE", None)>>
            \o AsyncMmapEdgeRecs(Tail(ps))
       ELSE AsyncMmapEdgeRecs(Tail(ps))

get_async_mmap_edges(ps) == DictFromSeq(<<>>, AsyncMmapEdgeRecs(ps))

\* get_buffer_edges: one edge per buffer of the top task, by sanitized name
get_buffer_edges(bs) ==
  DictFromSeq(<<>>,
    [i \in 1..Len(bs) |->
       Edge(<<"BUFFER_EDGE", sanitize_array_name(bs[i].name)>>,
            TaskVertexName(bs[i].produced_by), TaskVertexName(bs[i].consumed_by),
            bs[i].n_sections, "BUFFER_EDGE",
            Some(sanitize_array_name(bs[i].name)))])

\* get_edges
get_edges(fs, ps, bs) ==
  DictFromSeq(DictFromSeq(DictFromSeq(get_fifo_edges(fs), get_axi_edges(ps)),
                          get_async_mmap_edges(ps)),
              get_buffer_edges(bs))

\* get_task_vertices
get_task_vertices(n) ==
  [i \in 1..n |-> Vertex(TaskVertexName(i), "TASK_VERTEX", None, None)]

\* get_async_mmap_vertices: one vertex per async_mmap instance
RECURSIVE AsyncMmapVertexRecs(_)
AsyncMmapVertexRecs(ps) ==
  IF ps = <<>> THEN <<>>
  ELSE (IF Head(ps).is_async_mmap
        THEN <<Vertex(AsyncMmapVertexName(Head(ps)), "ASYNC_MMAP_VERTEX", None, None)>>
        ELSE <<>>)
       \o AsyncMmapVertexRecs(Tail(ps))

get_async_mmap_vertices(ps) == DictFromSeq(<<>>, AsyncMmapVertexRecs(ps))

\* get_port_vertices: one vertex per entry of arg_name_to_external_port
get_port_vertices(conn) ==
  [i \in 1..Len(conn) |->
     Vertex(PortVertexName(conn[i].arg), "PORT_VERTEX", Some(conn[i].port_cat),
            Some(conn[i].arg))]

\* get_vertices, without the update by get_port_vertices
get_vertices_NoPorts(n, ps, conn) ==
  DictFromSeq(get_task_vertices(n), get_async_mmap_vertices(ps))

\* get_vertices
get_vertices(n, ps, conn) ==
  DictFromSeq(DictFromSeq(get_task_vertices(n), get_async_mmap_vertices(ps)),
              get_port_vertices(conn))

\* the document generate_floorplan hands to annotate_floorplan
InputConfig(d) ==
  [part_num |-> d.part_num,
   enable_hbm_binding_adjustment |-> d.enable_hbm,
   vertices |-> get_vertices(d.num_tasks, d.ports, d.ports),
   edges |-> get_edges(d.fifos, d.ports, d.buffers),
   floorplan_pre_assignments |-> d.pins,
   floorplan_status |-> None,
   floorplan_region_pblock_tcl |-> None,
   slot_resource_usage |-> None,
   actual_slr_width_usage |-> None,
   actual_area_usage |-> None,
   new_hbm_binding |-> None]


(***************************************************************************)
(* The designs the model is run on.                                        *)
(***************************************************************************)
Design(pn, hbm, n, fs, ps, pins, nb) ==
  [part_num |-> pn, enable_hbm |-> hbm, num_tasks |-> n, fifos |-> fs,
   ports |-> ps, buffers |-> <<>>, pins |-> pins, num_buffers |-> nb]

Port(arg, cat, mmap) ==
  [arg |-> arg, port_cat |-> cat, is_mmap |-> mmap, is_async_mmap |-> FALSE,
   shared |-> FALSE, instance |-> 1]

Fifo(name, prod, cons, depth) ==
  [name |-> name, produced_by |-> prod, consumed_by |-> cons, depth |-> depth]

NoPins(n) == [i \in 1..n |-> None]

\* one task on every part number, with and without the HBM option
DeviceDesigns ==
  {Design(pn, hbm, 1, <<>>, <<>>, NoPins(1), 0) :
     pn \in PartNums, hbm \in BOOLEAN}

\* one task with up to MaxPorts mmap arguments bound to HBM or DDR ports
PortSeqs ==
  UNION {{[i \in 1..n |-> Port(i, c[i], TRUE)] : c \in [1..n -> {"HBM", "DDR"}]} :
         n \in 1..MaxPorts}

PortDesigns ==
  {Design(pn, hbm, 1, <<>>, ps, NoPins(1 + Len(ps)), 0) :
     pn \in {PN_U250, PN_U280}, hbm \in BOOLEAN, ps \in PortSeqs}

\* three tasks with the streams 1->2, 2->3 and 1->3, each absent (depth 0
\* below) or of depth 1..MaxDepth, and a stream that nobody consumes
StreamTasks == {1, 2, 3}
StreamFifos(d) ==
  (IF d[1] = 0 THEN <<>> ELSE <<Fifo(<<"a", "plain", 0>>, Some(1), Some(2), d[1])>>)
  \o (IF d[2] = 0 THEN <<>> ELSE <<Fifo(<<"s", "bracket", 0>>, Some(2), Some(3), d[2])>>)
  \o (IF d[3] = 0 THEN <<>> ELSE <<Fifo(<<"b", "under", 1>>, Some(1), Some(3), d[3])>>)
  \o <<Fifo(<<"d", "plain", 0>>, Some(3), None, MaxDepth)>>

StreamDesigns ==
  {Design(PN_U250, FALSE, Cardinality(StreamTasks), StreamFifos(d), <<>>,
          NoPins(Cardinality(StreamTasks)), 0) :
     d \in [1..3 -> 0..MaxDepth]}

\* one task and MaxHbmPorts async_mmap arguments on HBM ports; the user has
\* pinned all but the last two ports to the left half of SLR 0
HbmPins ==
  [i \in 1..(1 + MaxHbmPorts) |->
     IF i > 1 /\ i < MaxHbmPorts THEN Some([slr |-> 0, half |-> "L"]) ELSE None]

HbmDesigns ==
  {Design(PN_U280, hbm, 1, <<>>, [i \in 1..MaxHbmPorts |-> Port(i, "HBM", FALSE)],
          HbmPins, 0) : hbm \in BOOLEAN}

Designs == DeviceDesigns \cup PortDesigns \cup StreamDesigns \cup HbmDesigns

(***************************************************************************)
(* The passes of the core.                                                 *)
(***************************************************************************)
\* the sequences s with s[i] \in cands[i]
RECURSIVE ProductSeq(_)
ProductSeq(cands) ==
  IF cands = <<>> THEN {<<>>}
  ELSE {<<x>> \o r : x \in Head(cands), r \in ProductSeq(Tail(cands))}

\* main.py 44-49 and get_floorplan: the assignments of every vertex to one
\* slot of one granularity that honour the pre-assignments
Assignments(cfg) ==
  LET n == Len(cfg.vertices)
      pins == cfg.floorplan_pre_assignments
      Cands(S) == [i \in 1..n |-> IF pins[i] = None THEN S ELSE S \cap {Get(pins[i])}]
  IN ProductSeq(Cands(HalfSlots)) \cup ProductSeq(Cands(FullSlots))

VertexIndex(cfg, name) == KeyIndex(cfg.vertices, name)

\* util.get_slot_utilization: the slots that hold a vertex
get_slot_utilization(a) == Range(a)

\* ILPRouter.route_design: one simple path per edge, from the producer's slot
\* to the consumer's slot
Routes(cfg, a) ==
  ProductSeq([i \in 1..Len(cfg.edges) |->
                SimplePaths(a[VertexIndex(cfg, cfg.edges[i].produced_by)],
                            a[VertexIndex(cfg, cfg.edges[i].consumed_by)])])

\* latency_balancing: arrival times t of the task vertices with
\* t[v] = t[u] + hops + slack, slack >= 0, of least total slack; the depth of a
\* stream is at least its balanced latency, its nominal depth and hops + 1
Hops(path) == Len(path) - 1
StreamEdges(cfg) == {i \in 1..Len(cfg.edges) : cfg.edges[i].category = "FIFO_EDGE"}
TaskIndices(cfg) ==
  {i \in 1..Len(cfg.vertices) : cfg.vertices[i].category = "TASK_VERTEX"}
MaxArrival(cfg) == (Cardinality(HalfSlots) - 1) * (Cardinality(TaskIndices(cfg)) - 1)

\* the stream edges as (index, producer, consumer, hops, nominal depth, name)
StreamTable(cfg, paths) ==
  {[i |-> i,
    u |-> VertexIndex(cfg, cfg.edges[i].produced_by),
    v |-> VertexIndex(cfg, cfg.edges[i].consumed_by),
    hops |-> Hops(paths[i]),
    nominal |-> cfg.edges[i].depth,
    name |-> cfg.edges[i].name] : i \in StreamEdges(cfg)}

Slack(t, e) == t[e.v] - t[e.u] - e.hops

RECURSIVE TotalSlack(_, _)
TotalSlack(t, tab) ==
  IF tab = {} THEN 0
  ELSE LET e == CHOOSE x \in tab : TRUE
       IN Slack(t, e) + TotalSlack(t, tab \ {e})

BalancedDepth(hops, slack, nominal) == Max({hops + slack, nominal, hops + 1})

\* the answer for arrival times t: one record per stream edge, in edge order
RECURSIVE DepthRecs(_, _, _, _)
DepthRecs(t, tab, i, n) ==
  IF i > n THEN <<>>
  ELSE (IF \E e \in tab : e.i = i
        THEN LET e == CHOOSE x \in tab : x.i = i
             IN <<[name |-> e.name,
                   latency |-> e.hops + Slack(t, e),
                   depth |-> BalancedDepth(e.hops, Slack(t, e), e.nominal)]>>
        ELSE <<>>)
       \o DepthRecs(t, tab, i + 1, n)

latency_balancing(cfg, paths) ==
  LET tab == StreamTable(cfg, paths)
      cands == {[t |-> t, total |-> TotalSlack(t, tab)] :
                  t \in {x \in [TaskIndices(cfg) -> 0..MaxArrival(cfg)] :
                           \A e \in tab : Slack(x, e) >= 0}}
      best == Min({c.total : c \in cands})
  IN {DepthRecs(c.t, tab, 1, Len(cfg.edges)) : c \in {x \in cands : x.total = best}}

(***************************************************************************)
(* autobridge/main.py: get_annotated_config.                               *)
(***************************************************************************)
\* lines 158-160: every vertex gets its region and its SLR
AnnotateVertices(vs, a) ==
  [i \in 1..Len(vs) |->
     [vs[i] EXCEPT !.floorplan_region = Some(getRTLModuleName(a[i])),
                   !.SLR = Some(getSLR(a[i]))]]

\* lines 162-164: the slots that are not empty
UsedSlots(a, paths) ==
  Range(a) \cup UNION {Range(paths[i]) : i \in 1..Len(paths)}

\* lines 168-169: every routed edge gets its path
AnnotatePaths(es, paths) ==
  [i \in 1..Len(es) |->
     [es[i] EXCEPT !.path = Some([k \in 1..Len(paths[i]) |->
                                    getRTLModuleName(paths[i][k])])]]

\* a slip in lines 174-176: the balanced latency is written, not the depth
RECURSIVE UpdateEdgeDepth_WritesLatency(_, _)
UpdateEdgeDepth_WritesLatency(es, f2d) ==
  IF f2d = <<>> THEN es
  ELSE LET k == KeyIndex(es, Head(f2d).name)
       IN UpdateEdgeDepth_WritesLatency(
            [es EXCEPT ![k].adjusted_depth = Some(Head(f2d).latency)], Tail(f2d))

\* a slip in lines 174-176: the edge's own depth is written back
RECURSIVE UpdateEdgeDepth_WritesNominal(_, _)
UpdateEdgeDepth_WritesNominal(es, f2d) ==
  IF f2d = <<>> THEN es
  ELSE LET k == KeyIndex(es, Head(f2d).name)
       IN UpdateEdgeDepth_WritesNominal(
            [es EXCEPT ![k].adjusted_depth = Some(es[k].depth)], Tail(f2d))

\* lines 174-176: every edge the balancer names gets its adjusted depth
RECURSIVE UpdateEdgeDepth(_, _)
UpdateEdgeDepth(es, f2d) ==
  IF f2d = <<>> THEN es
  ELSE LET k == KeyIndex(es, Head(f2d).name)
       IN UpdateEdgeDepth([es EXCEPT ![k].adjusted_depth = Some(Head(f2d).depth)],
                          Tail(f2d))

\* lines 186-202: the loop over the assignment; None where an assertion fails.
\* binding is the dict top_arg_name -> port built so far
RECURSIVE HbmBinding(_, _, _, _, _, _)
HbmBinding(vs, a, i, left_curr, right_curr, binding) ==
  IF i > Len(vs) THEN Some(binding)
  ELSE IF vs[i].category = "PORT_VERTEX" /\ vs[i].port_cat = Some("HBM")
  THEN IF getSLR(a[i]) # 0 THEN None
       ELSE IF isLeftHalf(a[i])
       THEN HbmBinding(vs, a, i + 1, left_curr + 1, right_curr,
                       DictPut(binding, [name |-> Get(vs[i].top_arg_name),
                                         port |-> left_curr]))
       ELSE IF isRightHalf(a[i])
       THEN HbmBinding(vs, a, i + 1, left_curr, right_curr + 1,
                       DictPut(binding, [name |-> Get(vs[i].top_arg_name),
                                         port |-> right_curr]))
       ELSE None
  ELSE HbmBinding(vs, a, i + 1, left_curr, right_curr, binding)

LEFT_START == 0
RIGHT_START == 16

\* lines 183-184: whether the new HBM binding is recorded
RecordsHbmBinding(cfg, used) ==
  (\E s \in used : isHalfSLRSlot(s)) /\ cfg.enable_hbm_binding_adjustment

\* the whole of get_annotated_config: Some(document), or None where an
\* assertion of the HBM loop fails
get_annotated_config(a, paths, slot_to_usage, f2d, config_orig) ==
  LET used == UsedSlots(a, paths)
      annotated ==
        [config_orig EXCEPT
           !.vertices = AnnotateVertices(config_orig.vertices, a),
           !.floorplan_region_pblock_tcl =
               Some({getRTLModuleName(s) : s \in used}),
           !.edges = UpdateEdgeDepth(AnnotatePaths(config_orig.edges, paths), f2d),
           !.slot_resource_usage =
               Some({getRTLModuleName(s) : s \in slot_to_usage}),
           !.floorplan_status = Some("SUCCEED"),
           !.actual_slr_width_usage = Some("recorded"),
           !.actual_area_usage = Some("recorded")]
      hbm == HbmBinding(config_orig.vertices, a, 1, LEFT_START, RIGHT_START, <<>>)
  IN IF RecordsHbmBinding(config_orig, used)
     THEN IF hbm = None THEN None
          ELSE Some([annotated EXCEPT !.new_hbm_binding = Some(Get(hbm))])
     ELSE Some(annotated)

(***************************************************************************)
(* tapa/core.py: Program.generate_top_rtl, the FIFO depth adjustment.      *)
(***************************************************************************)
\* tapa.floorplan.get_floorplan_result: the adjusted depth of every FIFO edge
\* of the annotated document, keyed by the name of the FIFO instance
RECURSIVE FifoToDepth(_)
FifoToDepth(es) ==
  IF es = <<>> THEN <<>>
  ELSE (IF Head(es).category = "FIFO_EDGE" /\ Head(es).adjusted_depth # None
        THEN <<[name |-> Get(Head(es).instance),
                depth |-> Get(Head(es).adjusted_depth)]>>
        ELSE <<>>)
       \o FifoToDepth(Tail(es))

\* a slip in lines 506-514: the streams name is tried before the name itself
SetFifoDepth_StreamsFirst(fs, fifo_name, depth) ==
  IF HasKey(fs, streams_fifo_name(fifo_name))
  THEN [fs EXCEPT ![KeyIndex(fs, streams_fifo_name(fifo_name))].depth = depth]
  ELSE IF HasKey(fs, fifo_name)
  THEN [fs EXCEPT ![KeyIndex(fs, fifo_name)].depth = depth]
  ELSE fs

\* lines 505-517, one entry of the floorplan result
SetFifoDepth(fs, fifo_name, depth) ==
  IF HasKey(fs, fifo_name)
  THEN [fs EXCEPT ![KeyIndex(fs, fifo_name)].depth = depth]
  ELSE IF HasKey(fs, streams_fifo_name(fifo_name))
  THEN [fs EXCEPT ![KeyIndex(fs, streams_fifo_name(fifo_name))].depth = depth]
  ELSE fs

\* lines 505-517, the loop
RECURSIVE AdjustFifoDepths(_, _)
AdjustFifoDepths(fs, f2d) ==
  IF f2d = <<>> THEN fs
  ELSE AdjustFifoDepths(SetFifoDepth(fs, Head(f2d).name, Head(f2d).depth), Tail(f2d))

(***************************************************************************)
(* tapa/core.py: Program.__init__, the names of the buffer modules.        *)
(***************************************************************************)
Runs == {1, 2}
Chars == 1..NumChars

\* buffer_name_generator: any string of NameSize characters
BufferNames == [1..NameSize -> Chars]

\* lines 111-118: one fresh random name per buffer configuration; a name that
\* is already taken is drawn again
NameAssignments(n) ==
  {s \in [1..n -> BufferNames] : \A i, j \in 1..n : i # j => s[i] # s[j]}


(***************************************************************************)
(* The state machine.                                                      *)
(***************************************************************************)
DriverInit(d) ==
  /\ design = d
  /\ fifos = d.fifos
  /\ config = InputConfig(d)
  /\ pc = "start"
  /\ trace = <<>>
  /\ v2s = None
  /\ fifo_to_path = <<>>
  /\ fifo_name_to_depth = <<>>
  /\ result = None
  /\ exception = None
  /\ names = [r \in Runs |-> None]

InitOf(d) ==
  /\ DriverInit(d)
  /\ hw = None
  /\ tg = None
  /\ gen = None
  /\ adj = None

Init == \E d \in Designs : InitOf(d)

\* annotate_floorplan, lines 17-26: an unsupported device returns the document
CheckDevice ==
  /\ pc = "start"
  /\ IF is_device_supported(config.part_num)
     THEN pc' = "device" /\ result' = result
     ELSE pc' = "returned" /\ result' = Some(config)
  /\ UNCHANGED <<hw, tg, gen, adj, design, fifos, config, trace, v2s, fifo_to_path,
                 fifo_name_to_depth, exception, names>>

\* lines 26-39: the device model; get_board_num raises on an unknown part
BuildDevice ==
  /\ pc = "device"
  /\ IF get_board_num(config.part_num) = None
     THEN pc' = "raised" /\ exception' = Some("NotImplementedError")
          /\ trace' = trace
     ELSE pc' = "floorplan" /\ exception' = exception
          /\ trace' = Append(trace, "device")
  /\ UNCHANGED <<hw, tg, gen, adj, design, fifos, config, v2s, fifo_to_path, fifo_name_to_depth,
                 result, names>>

\* lines 41-60: the floorplanner answers with an assignment or with None
Floorplan ==
  /\ pc = "floorplan"
  /\ \E r \in {None} \cup {Some(a) : a \in Assignments(config)} : v2s' = r
  /\ trace' = Append(trace, "floorplanner")
  /\ pc' = "floorplanned"
  /\ UNCHANGED <<hw, tg, gen, adj, design, fifos, config, fifo_to_path, fifo_name_to_depth,
                 result, exception, names>>

\* a slip in lines 64-69: the document is returned without the status
FloorplanFailed_Unmarked ==
  /\ pc = "floorplanned"
  /\ v2s = None
  /\ result' = Some(config)
  /\ pc' = "returned"
  /\ UNCHANGED <<hw, tg, gen, adj, design, fifos, config, trace, v2s, fifo_to_path,
                 fifo_name_to_depth, exception, names>>

\* a slip in lines 64-69: the floorplanner is tried again
FloorplanFailed_Retry ==
  /\ pc = "floorplanned"
  /\ v2s = None
  /\ pc' = "floorplan"
  /\ UNCHANGED <<hw, tg, gen, adj, design, fifos, config, trace, v2s, fifo_to_path,
                 fifo_name_to_depth, result, exception, names>>

\* lines 64-69: no assignment; the document is marked FAILED in place
FloorplanFailed ==
  /\ pc = "floorplanned"
  /\ v2s = None
  /\ config' = [config EXCEPT !.floorplan_status = Some("FAILED")]
  /\ result' = Some(config')
  /\ pc' = "returned"
  /\ UNCHANGED <<hw, tg, gen, adj, design, fifos, trace, v2s, fifo_to_path, fifo_name_to_depth,
                 exception, names>>

\* lines 71-80: the router answers with one path per edge
Route ==
  /\ pc = "floorplanned"
  /\ v2s # None
  /\ \E paths \in Routes(config, Get(v2s)) : fifo_to_path' = paths
  /\ trace' = Append(trace, "router")
  /\ pc' = "routed"
  /\ UNCHANGED <<hw, tg, gen, adj, design, fifos, config, v2s, fifo_name_to_depth, result,
                 exception, names>>

\* lines 71-80: the router finds the design unroutable; nothing in
\* annotate_floorplan handles it, so the failure leaves the function
RouteFailed ==
  /\ pc = "floorplanned"
  /\ v2s # None
  /\ trace' = Append(trace, "router")
  /\ exception' = Some("UnroutableDesign")
  /\ pc' = "raised"
  /\ UNCHANGED <<hw, tg, gen, adj, design, fifos, config, v2s, fifo_to_path, fifo_name_to_depth,
                 result, names>>

\* line 82: the latency balancer
Balance ==
  /\ pc = "routed"
  /\ \E f2d \in latency_balancing(config, fifo_to_path) : fifo_name_to_depth' = f2d
  /\ trace' = Append(trace, "balancer")
  /\ pc' = "balanced"
  /\ UNCHANGED <<hw, tg, gen, adj, design, fifos, config, v2s, fifo_to_path, result, exception,
                 names>>

\* lines 84-90: the annotated copy of the document is returned, unless an
\* assertion of get_annotated_config fails
Annotate ==
  /\ pc = "balanced"
  /\ LET r == get_annotated_config(Get(v2s), fifo_to_path,
                                   get_slot_utilization(Get(v2s)),
                                   fifo_name_to_depth, config)
     IN IF r = None
        THEN pc' = "raised" /\ exception' = Some("AssertionError")
             /\ result' = result
        ELSE pc' = "returned" /\ exception' = exception /\ result' = r
  /\ trace' = Append(trace, "annotation")
  /\ UNCHANGED <<hw, tg, gen, adj, design, fifos, config, v2s, fifo_to_path, fifo_name_to_depth,
                 names>>

\* core.py 468-518: the depths of the floorplan result are applied to the
\* FIFOs of the top task
GenerateTopRtl ==
  /\ pc = "returned"
  /\ fifos' = AdjustFifoDepths(fifos, FifoToDepth(Get(result).edges))
  /\ pc' = "done"
  /\ UNCHANGED <<hw, tg, gen, adj, design, config, trace, v2s, fifo_to_path, fifo_name_to_depth,
                 result, exception, names>>

Next ==
  \/ CheckDevice
  \/ BuildDevice
  \/ Floorplan
  \/ FloorplanFailed
  \/ Route
  \/ RouteFailed
  \/ Balance
  \/ Annotate
  \/ GenerateTopRtl

Spec == Init /\ [][Next]_vars

(***************************************************************************)
(* Two constructions of the same program: the buffer module names.         *)
(***************************************************************************)
NameDesigns ==
  {Design(PN_U250, FALSE, 1, <<>>, <<>>, NoPins(1), nb) : nb \in 0..MaxBuffers}

InitNames == \E d \in NameDesigns : InitOf(d)

\* core.py 108-118 in run r
ProgramInit(r) ==
  /\ names[r] = None
  /\ \E s \in NameAssignments(design.num_buffers) :
        names' = [names EXCEPT ![r] = Some(s)]
  /\ UNCHANGED <<hw, tg, gen, adj, design, fifos, config, pc, trace, v2s, fifo_to_path,
                 fifo_name_to_depth, result, exception>>

NextNames == \E r \in Runs : ProgramInit(r)

SpecNames == InitNames /\ [][NextNames]_vars


(***************************************************************************)
(* The handshake logic generated into an upper-level module                *)
(* (tapa/core.py: _instantiate_children_tasks, _instantiate_global_fsm).   *)
(* hw holds the value of every signal during the current clock cycle:      *)
(* the inputs, the registers and the wires assigned from them.  A pipeline *)
(* q of level n is the sequence <<q[0], ..., q[n]>>: q[0] is a wire,       *)
(* q[1..n] are registers.                                                  *)
(***************************************************************************)
MaxLevel == 2       \* register_level ranges over 0..MaxLevel

STATE00 == "00"
STATE01 == "01"
STATE11 == "11"
STATE10 == "10"

Last(q) == q[Len(q)]

\* rtl.Pipeline(name, level): level + 1 signals, the registers cleared
Pipeline(level, init) == [k \in 1..(level + 1) |-> IF k = 1 THEN init ELSE FALSE]

\* Module.add_pipeline(q, init): q[0] is assigned init, and on every clock
\* edge q[i + 1] takes the value q[i] had before the edge
add_pipeline(q, init) == [k \in 1..Len(q) |-> IF k = 1 THEN init ELSE q[k - 1]]

\* Instance.is_autorun
is_autorun(step) == step < 0

\* the always block of a non-autorun instance (core.py 841-884)
InstanceFsm_SkipDone(state, rst_n, start_upper, ready, done, done_upper) ==
  IF ~rst_n THEN STATE00
  ELSE IF state = STATE00 THEN (IF start_upper THEN STATE01 ELSE state)
  ELSE IF state = STATE01 THEN (IF ready THEN STATE11 ELSE state)
  ELSE IF state = STATE11 THEN (IF done THEN STATE10 ELSE state)
  ELSE (IF done_upper THEN STATE00 ELSE state)

InstanceFsm_Restart(state, rst_n, start_upper, ready, done, done_upper) ==
  IF ~rst_n THEN STATE00
  ELSE IF state = STATE00 THEN (IF start_upper THEN STATE01 ELSE state)
  ELSE IF state = STATE01
       THEN (IF ready THEN (IF done THEN STATE10 ELSE STATE11) ELSE state)
  ELSE IF state = STATE11 THEN (IF done THEN STATE10 ELSE state)
  ELSE (IF done_upper THEN (IF start_upper THEN STATE01 ELSE STATE00) ELSE state)

InstanceFsm(state, rst_n, start_upper, ready, done, done_upper) ==
  IF ~rst_n THEN STATE00
  ELSE IF state = STATE00 THEN (IF start_upper THEN STATE01 ELSE state)
  ELSE IF state = STATE01
       THEN (IF ready THEN (IF done THEN STATE10 ELSE STATE11) ELSE state)
  ELSE IF state = STATE11 THEN (IF done THEN STATE10 ELSE state)
  ELSE (IF done_upper THEN STATE00 ELSE state)

\* assign start = (state == 01) of a non-autorun instance (core.py 885-888)
InstanceStart_In11(state) == state = STATE11
InstanceStart(state) == state = STATE01

\* the input of the is_done pipeline (core.py 838)
InstanceIsDone(state) == state = STATE10

\* the always block of an autorun instance (core.py 806-827)
AutorunStart_Pulse(start, rst_n, start_upper) ==
  IF ~rst_n THEN FALSE ELSE start_upper
AutorunStart(start, rst_n, start_upper) ==
  IF ~rst_n THEN FALSE ELSE IF start_upper THEN TRUE ELSE start

\* state01_action (core.py 993-1001): the conjunction of the last stage of
\* every is_done pipeline; unconditional when there is none
state01_action(is_done_signals) ==
  \A k \in 1..Len(is_done_signals) : Last(is_done_signals[k])

\* the always block of the upper-level module (core.py 1003-1056)
GlobalFsm_Stuck10(state, countdown, rst, start, all_done, register_level) ==
  IF rst THEN [state |-> STATE00, countdown |-> countdown]
  ELSE IF state = STATE00
       THEN [state |-> IF start THEN STATE01 ELSE state, countdown |-> countdown]
  ELSE IF state = STATE01
       THEN [state |-> IF all_done THEN STATE10 ELSE state, countdown |-> countdown]
  ELSE IF state = STATE10
       THEN [state |-> IF start THEN STATE10 ELSE STATE00, countdown |-> countdown]
  ELSE [state |-> STATE00, countdown |-> countdown]

GlobalFsm(state, countdown, rst, start, all_done, register_level) ==
  IF rst THEN [state |-> STATE00, countdown |-> countdown]
  ELSE IF state = STATE00
       THEN [state |-> IF start THEN STATE01 ELSE state, countdown |-> countdown]
  ELSE IF state = STATE01
       THEN [state |-> IF all_done THEN STATE10 ELSE state, countdown |-> countdown]
  ELSE IF state = STATE10
       THEN [state |-> IF register_level # 0 THEN STATE11 ELSE STATE00,
             countdown |-> Max({0, register_level - 1})]
  ELSE IF countdown = 0
       THEN [state |-> STATE00, countdown |-> countdown]
       ELSE [state |-> state, countdown |-> countdown - 1]

\* assign ap_idle and ap_done (core.py 1057-1058)
GlobalIdle(state) == state = STATE00
GlobalDone(done_q) == Last(done_q)

\* the indices of the non-autorun instances, in instantiation order
RECURSIVE NonAutorun(_, _)
NonAutorun(steps, i) ==
  IF i > Len(steps) THEN <<>>
  ELSE (IF is_autorun(steps[i]) THEN <<>> ELSE <<i>>) \o NonAutorun(steps, i + 1)

\* the inputs of one cycle: the module's ap_start and ap_rst_n, and the
\* ap_ready and ap_done of every non-autorun child.  Both sides follow the
\* handshake: whoever starts the module keeps ap_start asserted until the
\* module answers ap_ready (hold: ap_start was asserted and not answered),
\* and a child answers ap_ready only while its ap_start is asserted
\* (state 01) and ap_done only once started (state 01 or 11).
HwInputs(steps, state, hold) ==
  {[ap_start |-> s, ap_rst_n |-> r, ready |-> rd, done |-> dn] :
     s \in {b \in BOOLEAN : hold => b}, r \in BOOLEAN,
     rd \in {f \in [1..Len(steps) -> BOOLEAN] :
               \A i \in 1..Len(steps) :
                  f[i] => ~is_autorun(steps[i]) /\ state[i] = STATE01},
     dn \in {f \in [1..Len(steps) -> BOOLEAN] :
               \A i \in 1..Len(steps) :
                  f[i] => ~is_autorun(steps[i]) /\ state[i] \in {STATE01, STATE11}}}

\* the wires of the module, assigned from the registers and the inputs
HwWires(regs, in) ==
  [register_level |-> regs.register_level,
   steps |-> regs.steps,
   ap_start |-> in.ap_start,
   ap_rst_n |-> in.ap_rst_n,
   ap_rst_n_inv |-> ~in.ap_rst_n,
   ready |-> in.ready,
   done |-> in.done,
   tapa_state |-> regs.tapa_state,
   countdown |-> regs.countdown,
   start_q |-> add_pipeline(regs.start_q, in.ap_start),
   done_q |-> add_pipeline(regs.done_q, regs.tapa_state = STATE10),
   rst_q |-> [i \in 1..Len(regs.steps) |-> add_pipeline(regs.rst_q[i], in.ap_rst_n)],
   start_global |->
     [i \in 1..Len(regs.steps) |-> add_pipeline(regs.start_global[i], in.ap_start)],
   done_global |->
     [i \in 1..Len(regs.steps) |->
        add_pipeline(regs.done_global[i], regs.tapa_state = STATE10)],
   is_done_q |->
     [i \in 1..Len(regs.steps) |->
        add_pipeline(regs.is_done_q[i], InstanceIsDone(regs.state[i]))],
   state |-> regs.state,
   start |->
     [i \in 1..Len(regs.steps) |->
        IF is_autorun(regs.steps[i]) THEN regs.start[i]
        ELSE InstanceStart(regs.state[i])],
   ap_idle |-> GlobalIdle(regs.tapa_state),
   ap_done |-> GlobalDone(add_pipeline(regs.done_q, regs.tapa_state = STATE10)),
   ap_ready |-> regs.tapa_state = STATE10]

\* the registers after a clock edge, from the signals before it; the
\* pipelines are carried as they were and shifted by add_pipeline in HwWires
HwClock(h) ==
  LET n == Len(h.steps)
      run == NonAutorun(h.steps, 1)
      g == GlobalFsm(h.tapa_state, h.countdown, h.ap_rst_n_inv, Last(h.start_q),
                     state01_action([k \in 1..Len(run) |-> h.is_done_q[run[k]]]),
                     h.register_level)
  IN [register_level |-> h.register_level,
      steps |-> h.steps,
      tapa_state |-> g.state,
      countdown |-> g.countdown,
      start_q |-> h.start_q,
      done_q |-> h.done_q,
      rst_q |-> [i \in 1..n |-> h.rst_q[i]],
      start_global |-> [i \in 1..n |-> h.start_global[i]],
      done_global |-> [i \in 1..n |-> h.done_global[i]],
      is_done_q |-> [i \in 1..n |-> h.is_done_q[i]],
      state |->
        [i \in 1..n |->
           IF is_autorun(h.steps[i]) THEN h.state[i]
           ELSE InstanceFsm(h.state[i], Last(h.rst_q[i]), Last(h.start_global[i]),
                            h.ready[i], h.done[i], Last(h.done_global[i]))],
      start |->
        [i \in 1..n |->
           IF is_autorun(h.steps[i])
           THEN AutorunStart(h.start[i], Last(h.rst_q[i]), Last(h.start_global[i]))
           ELSE FALSE]]

\* the registers at power-up: every register cleared
HwReset(level, steps) ==
  [register_level |-> level,
   steps |-> steps,
   tapa_state |-> STATE00,
   countdown |-> 0,
   start_q |-> Pipeline(level, FALSE),
   done_q |-> Pipeline(level, FALSE),
   rst_q |-> [i \in 1..Len(steps) |-> Pipeline(level, FALSE)],
   start_global |-> [i \in 1..Len(steps) |-> Pipeline(level, FALSE)],
   done_global |-> [i \in 1..Len(steps) |-> Pipeline(level, FALSE)],
   is_done_q |-> [i \in 1..Len(steps) |-> Pipeline(level, FALSE)],
   state |-> [i \in 1..Len(steps) |-> STATE00],
   start |-> [i \in 1..Len(steps) |-> FALSE]]

\* the children of the modules the model is run on: each child is
\* instantiated in step 0 or detached (step -1)
ChildSteps == {<<>>, <<-1>>, <<0>>, <<-1, -1>>, <<0, -1>>, <<-1, 0>>, <<0, 0>>}

IdleDesign == Design(PN_U250, FALSE, 1, <<>>, <<>>, NoPins(1), 0)

InitHw ==
  /\ DriverInit(IdleDesign)
  /\ tg = None
  /\ gen = None
  /\ adj = None
  /\ \E level \in 0..MaxLevel, steps \in ChildSteps :
       \E in \in HwInputs(steps, [i \in 1..Len(steps) |-> STATE00], FALSE) :
          hw = HwWires(HwReset(level, steps), in)

\* one clock edge, and the inputs of the cycle that follows it
Clock ==
  /\ LET regs == HwClock(hw) IN
       \E in \in HwInputs(regs.steps, regs.state, hw.ap_start /\ ~hw.ap_ready) :
          hw' = HwWires(regs, in)
  /\ hw' # hw
  /\ UNCHANGED <<driver, tg, gen, adj>>

NextHw == Clock

SpecHw == InitHw /\ [][NextHw]_vars

(***************************************************************************)
(* tapa/codegen/buffergen.py: index_generator.  A string is the sequence   *)
(* of its characters.                                                      *)
(***************************************************************************)
MaxDims == 2                  \* the lists of factors have at most MaxDims entries
FactorValues == {1, 2, 3, 11}

\* str(i) of a non-negative int: its decimal digits
RECURSIVE str(_)
str(i) ==
  LET digit == <<"0", "1", "2", "3", "4", "5", "6", "7", "8", "9">>[(i % 10) + 1]
  IN IF i < 10 THEN <<digit>> ELSE str(i \div 10) \o <<digit>>

\* "_".join(strs)
RECURSIVE join(_)
join(strs) ==
  IF strs = <<>> THEN <<>>
  ELSE IF Len(strs) = 1 THEN strs[1]
  ELSE strs[1] \o <<"_">> \o join(Tail(strs))

\* total_items: the product of the factors (lines 16-18)
RECURSIVE TotalItems(_)
TotalItems(factors) ==
  IF factors = <<>> THEN 1 ELSE Head(factors) * TotalItems(Tail(factors))

\* lines 20-23: the indices of the dimensions whose factor is not 1
RECURSIVE ToYield(_, _, _)
ToYield(factors, indices, i) ==
  IF i > Len(factors) THEN <<>>
  ELSE (IF factors[i] # 1 THEN <<indices[i]>> ELSE <<>>)
       \o ToYield(factors, indices, i + 1)

\* lines 24-28: the string yielded for the current indices
Yielded(factors, indices) ==
  LET to_yield == ToYield(factors, indices, 1)
      res == join([k \in 1..Len(to_yield) |-> str(to_yield[k])])
  IN IF res = <<>> THEN <<>> ELSE res \o <<"_">>

\* lines 29-34: the indices after the yield, from dimension i downwards
RECURSIVE Advance_FirstFastest(_, _, _)
Advance_FirstFastest(factors, indices, i) ==
  LET j == Len(factors) + 1 - i IN
  IF i < 1 THEN indices
  ELSE IF indices[j] = factors[j] - 1
       THEN Advance_FirstFastest(factors, [indices EXCEPT ![j] = 0], i - 1)
       ELSE [indices EXCEPT ![j] = indices[j] + 1]

RECURSIVE Advance(_, _, _)
Advance(factors, indices, i) ==
  IF i < 1 THEN indices
  ELSE IF indices[i] = factors[i] - 1
       THEN Advance(factors, [indices EXCEPT ![i] = 0], i - 1)
       ELSE [indices EXCEPT ![i] = indices[i] + 1]

FactorLists == UNION {[1..n -> FactorValues] : n \in 0..MaxDims}

\* lines 14-18: the generator before its first yield
index_generator(factors) ==
  [factors |-> factors,
   indices |-> [i \in 1..Len(factors) |-> 0],
   total_items |-> TotalItems(factors),
   n |-> 0,
   yielded |-> <<>>,
   exhausted |-> FALSE]

InitGen ==
  /\ DriverInit(IdleDesign)
  /\ hw = None
  /\ tg = None
  /\ adj = None
  /\ \E factors \in FactorLists : gen = index_generator(factors)

\* one iteration of the loop of lines 19-34: a string is yielded
GenYield ==
  /\ gen.n < gen.total_items
  /\ gen' = [gen EXCEPT
               !.yielded = Append(@, Yielded(gen.factors, gen.indices)),
               !.indices = Advance(gen.factors, @, Len(gen.factors)),
               !.n = @ + 1]
  /\ UNCHANGED <<driver, hw, tg, adj>>

\* the loop is over: the generator is exhausted
GenStop ==
  /\ gen.n = gen.total_items
  /\ ~gen.exhausted
  /\ gen' = [gen EXCEPT !.exhausted = TRUE]
  /\ UNCHANGED <<driver, hw, tg, adj>>

NextGen ==
  \/ GenYield
  \/ GenStop

SpecGen == InitGen /\ [][NextGen]_vars

(***************************************************************************)
(* The graph of a top task: get_edges and get_vertices applied to the      *)
(* FIFOs, arguments and buffers of one top task and to the port bindings   *)
(* read from its connectivity file.                                        *)
(***************************************************************************)
GraphTasks == {1, 2}
Ends == {None} \cup {Some(i) : i \in GraphTasks}

\* an element of a streams array with any ends, and possibly a plain FIFO
GraphFifos ==
  {<<Fifo(<<"s", "bracket", 0>>, prod, cons, 1)>> \o rest :
     prod \in Ends, cons \in Ends,
     rest \in {<<>>, <<Fifo(<<"a", "plain", 0>>, Some(1), Some(2), 1)>>}}

\* the i-th argument: a scalar, an mmap or an async_mmap of some instance
GraphArgs(i) ==
  {[arg |-> i, port_cat |-> IF i % 2 = 1 THEN "HBM" ELSE "DDR",
    is_mmap |-> FALSE, is_async_mmap |-> FALSE, shared |-> FALSE, instance |-> 1]}
  \cup
  {[arg |-> i, port_cat |-> IF i % 2 = 1 THEN "HBM" ELSE "DDR",
    is_mmap |-> TRUE, is_async_mmap |-> a, shared |-> sh, instance |-> inst] :
     a \in BOOLEAN, sh \in BOOLEAN, inst \in GraphTasks}

GraphArgSeqs ==
  UNION {{f \in [1..n -> UNION {GraphArgs(i) : i \in 1..n}] :
            \A i \in 1..n : f[i] \in GraphArgs(i)} : n \in 0..MaxPorts}

GraphBuffers ==
  {<<>>} \cup
  {<<[name |-> <<"b", "bracket", 1>>, produced_by |-> prod, consumed_by |-> cons,
      n_sections |-> 2]>> : prod \in GraphTasks, cons \in GraphTasks}

\* the port bindings of the connectivity file: one for every mmap argument
RECURSIVE parse_connectivity(_)
parse_connectivity(ps) ==
  IF ps = <<>> THEN <<>>
  ELSE (IF Head(ps).is_mmap
        THEN <<[arg |-> Head(ps).arg, port_cat |-> Head(ps).port_cat]>>
        ELSE <<>>)
       \o parse_connectivity(Tail(ps))

InitGraph ==
  /\ DriverInit(IdleDesign)
  /\ hw = None
  /\ gen = None
  /\ adj = None
  /\ \E fs \in GraphFifos, ps \in GraphArgSeqs, bs \in GraphBuffers :
       tg = [num_tasks |-> Cardinality(GraphTasks), fifos |-> fs, args |-> ps,
             buffers |-> bs, arg_name_to_external_port |-> parse_connectivity(ps),
             edges |-> <<>>, vertices |-> <<>>, pc |-> "input"]

\* the edges and the vertices of the floorplan configuration
BuildGraph ==
  /\ tg.pc = "input"
  /\ tg' = [tg EXCEPT
              !.edges = get_edges(tg.fifos, tg.args, tg.buffers),
              !.vertices = get_vertices(tg.num_tasks, tg.args,
                                        tg.arg_name_to_external_port),
              !.pc = "built"]
  /\ UNCHANGED <<driver, hw, gen, adj>>

NextGraph == BuildGraph

SpecGraph == InitGraph /\ [][NextGraph]_vars

(***************************************************************************)
(* The depth adjustment loop of generate_top_rtl (core.py 505-517) on the  *)
(* FIFOs of a top task and on any floorplan result: the result may name    *)
(* FIFOs by their own name, by the name of a streams element with _n for   *)
(* [n], or name nothing the top task has.                                  *)
(***************************************************************************)
MaxEntries == 2      \* entries of fifo_to_depth

\* a, s_0, s[0] and t_1
AdjNames ==
  <<<<"a", "plain", 0>>, <<"s", "under", 0>>, <<"s", "bracket", 0>>,
    <<"t", "under", 1>>>>

\* the top task has any of the FIFOs of AdjNames, in this order
RECURSIVE AdjFifosOf(_, _, _)
AdjFifosOf(has, depth, i) ==
  IF i > Len(AdjNames) THEN <<>>
  ELSE (IF has[i] THEN <<Fifo(AdjNames[i], Some(1), Some(2), depth)>> ELSE <<>>)
       \o AdjFifosOf(has, depth, i + 1)

AdjFifos ==
  {AdjFifosOf(has, depth, 1) :
     has \in [1..Len(AdjNames) -> BOOLEAN], depth \in 1..MaxDepth}

\* fifo_to_depth is a dict: at most MaxEntries entries with distinct names
AdjResults ==
  UNION {{[i \in 1..n |-> [name |-> q[i], depth |-> d[i]]] :
            q \in {p \in [1..n -> Range(AdjNames)] :
                     \A i, j \in 1..n : i # j => p[i] # p[j]},
            d \in [1..n -> 1..MaxDepth]} :
         n \in 0..MaxEntries}

InitAdjust ==
  /\ DriverInit(IdleDesign)
  /\ hw = None
  /\ tg = None
  /\ gen = None
  /\ \E fs \in AdjFifos, f2d \in AdjResults :
       adj = [constructed |-> fs, fifos |-> fs, fifo_to_depth |-> f2d, i |-> 0,
              critical |-> <<>>]

\* lines 505-517, one iteration: entry i + 1 of fifo_to_depth is applied, or
\* logged as unrecognized when neither name is a FIFO of the top task
AdjustEntry ==
  /\ adj.i < Len(adj.fifo_to_depth)
  /\ LET fifo_name == adj.fifo_to_depth[adj.i + 1].name
         depth == adj.fifo_to_depth[adj.i + 1].depth
     IN adj' = [adj EXCEPT
                  !.fifos = SetFifoDepth(@, fifo_name, depth),
                  !.critical =
                     IF HasKey(adj.fifos, fifo_name)
                        \/ HasKey(adj.fifos, streams_fifo_name(fifo_name))
                     THEN @ ELSE Append(@, fifo_name),
                  !.i = @ + 1]
  /\ UNCHANGED <<driver, hw, tg, gen>>

NextAdjust == AdjustEntry

SpecAdjust == InitAdjust /\ [][NextAdjust]_vars

(***************************************************************************)
(* Properties.                                                             *)
(***************************************************************************)
Stages == <<"device", "floorplanner", "router", "balancer", "annotation">>
IsPrefix(s, t) == Len(s) <= Len(t) /\ SubSeq(t, 1, Len(s)) = s
Invoked(stage) == stage \in Range(trace)
Returned == pc \in {"returned", "done"}
Failed(doc) == [doc EXCEPT !.floorplan_status = Some("FAILED")]
Succeeded == Returned /\ Get(result).floorplan_status = Some("SUCCEED")

\* C1: when the floorplanner returns no assignment, annotate_floorplan does
\* not raise, invokes neither the router nor the balancer nor the annotation,
\* and returns the input document with floorplan_status = "FAILED" added and
\* nothing else changed.
C1_FloorplanFailureReturned ==
  (Invoked("floorplanner") /\ v2s = None) =>
     /\ pc # "raised"
     /\ trace = <<"device", "floorplanner">>
     /\ Returned => result = Some(Failed(InputConfig(design)))

C1_Witness == pc = "returned" /\ Invoked("floorplanner") /\ v2s = None

\* C2: when the router cannot route the design, annotate_floorplan returns a
\* document with floorplan_status = "FAILED"; and "SUCCEED" is written only
\* after floorplanner, router and balancer have all succeeded.
C2_RouterFailureSurfaced ==
  /\ exception = Some("UnroutableDesign") =>
        result # None /\ Get(result).floorplan_status = Some("FAILED")
  /\ (result # None /\ Get(result).floorplan_status = Some("SUCCEED")) =>
        (trace = Stages /\ v2s # None /\ exception = None)

\* C3: for a part number without a device model, annotate_floorplan runs no
\* stage and returns the input document with floorplan_status = "FAILED" added
\* and nothing else changed.
C3_UnsupportedDeviceFailed ==
  (Returned /\ ~is_device_supported(design.part_num)) =>
     /\ trace = <<>>
     /\ result = Some(Failed(InputConfig(design)))

\* the HBM port vertices before vertex i that the assignment puts in the
\* same half as vertex i
HbmBefore(vs, a, i) ==
  {j \in 1..(i - 1) : /\ vs[j].category = "PORT_VERTEX"
                      /\ vs[j].port_cat = Some("HBM")
                      /\ a[j].half = a[i].half}

BoundPort(binding, arg) == binding[KeyIndex(binding, arg)].port

\* C4: in a returned document with a new HBM binding, for any number of HBM
\* port vertices, a vertex in a left half has an id in [0,16) and a vertex in
\* a right half an id in [16,32), and the ids of each side are 0,1,2,... and
\* 16,17,18,... in the order of the assignment, under the top_arg_name.
C4_HbmIdsInRange ==
  (Succeeded /\ Get(result).new_hbm_binding # None) =>
     LET vs == config.vertices
         a == Get(v2s)
         binding == Get(Get(result).new_hbm_binding)
     IN \A i \in 1..Len(vs) :
          (vs[i].category = "PORT_VERTEX" /\ vs[i].port_cat = Some("HBM")) =>
             /\ HasKey(binding, Get(vs[i].top_arg_name))
             /\ LET port == BoundPort(binding, Get(vs[i].top_arg_name))
                    k == Cardinality(HbmBefore(vs, a, i))
                IN /\ isLeftHalf(a[i]) => (port = k /\ port \in 0..15)
                   /\ isRightHalf(a[i]) => (port = 16 + k /\ port \in 16..31)

\* C5: the stages run strictly forward in the order device model,
\* floorplanner, router, balancer, annotation, each at most once, and the
\* router, the balancer and the annotation run only after the floorplanner
\* has returned an assignment.
C5_StagesForward ==
  /\ IsPrefix(trace, Stages)
  /\ (Invoked("router") \/ Invoked("balancer") \/ Invoked("annotation")) => v2s # None

C5_Witness == pc = "returned" /\ trace = Stages

\* C6: annotate_floorplan never ends by raising an exception or failing an
\* assertion.
C6_NeverRaises == pc # "raised" /\ exception = None

BoardOfPrefix(p) ==
  IF p = PREFIX_U250 THEN "U250"
  ELSE IF p = PREFIX_U280 THEN "U280"
  ELSE IF p = PREFIX_U200 THEN "U200"
  ELSE "U50"

\* C7: every part number that starts with a supported device's prefix is
\* resolved by get_board_num to that device's board; in particular a part
\* that get_floorplan_params takes for an HBM device resolves to U280 or U50.
C7_BoardByPrefix ==
  /\ \A p \in SupportedPrefixes :
        StartsWith(config.part_num, p) =>
           get_board_num(config.part_num) = Some(BoardOfPrefix(p))
  /\ is_u280(config.part_num) => get_board_num(config.part_num) = Some("U280")
  /\ is_u50(config.part_num) => get_board_num(config.part_num) = Some("U50")

\* C8: two constructions of the same program give the buffer modules the
\* same names.
C8_SameNames ==
  (names[1] # None /\ names[2] # None) => names[1] = names[2]

\* the FIFO edge of the document that a FIFO of the top task gave rise to
EdgeNameOf(f) == <<"FIFO_EDGE", sanitize_array_name(f.name)>>
Connected(f) == f.produced_by # None /\ f.consumed_by # None

RECURSIVE PathSums(_, _, _)
PathSums(tab, u, v) ==
  IF u = v THEN {0}
  ELSE UNION {{e.w + x : x \in PathSums(tab, e.v, v)} : e \in {y \in tab : y.u = u}}

\* the stream edges of a document, weighted by adjusted_depth
DepthGraph(doc) ==
  {[u |-> doc.edges[i].produced_by, v |-> doc.edges[i].consumed_by,
    w |-> Get(doc.edges[i].adjusted_depth)] :
     i \in {j \in 1..Len(doc.edges) : doc.edges[j].category = "FIFO_EDGE"}}

\* the stream edges of a document, weighted by the balancer's latency
LatencyGraph(doc, f2d) ==
  {[u |-> doc.edges[KeyIndex(doc.edges, f2d[i].name)].produced_by,
    v |-> doc.edges[KeyIndex(doc.edges, f2d[i].name)].consumed_by,
    w |-> f2d[i].latency] : i \in 1..Len(f2d)}

TaskNames(doc) ==
  {doc.vertices[i].name : i \in {j \in 1..Len(doc.vertices) :
                                   doc.vertices[j].category = "TASK_VERTEX"}}

Children == 1..Len(hw.steps)
RunChildren == {i \in Children : ~is_autorun(hw.steps[i])}
AutorunChildren == {i \in Children : is_autorun(hw.steps[i])}

\* the inputs of the state machine of instance i, as its always block reads them
Reset(i) == ~Last(hw.rst_q[i])
StartUpper(i) == Last(hw.start_global[i])
DoneUpper(i) == Last(hw.done_global[i])

\* C11: on every clock edge the state machine of a non-autorun instance makes
\* exactly the documented transition: reset forces 00; 00->01 iff start_upper;
\* 01->11 iff ready and not done; 01->10 iff ready and done; 11->10 iff done;
\* 10->00 iff done_upper; otherwise the state is unchanged.
C11_Transition(i) ==
  LET s == hw.state[i]
      t == hw'.state[i]
  IN IF Reset(i) THEN t = STATE00
     ELSE /\ (s = STATE00 /\ StartUpper(i)) => t = STATE01
          /\ (s = STATE01 /\ hw.ready[i] /\ ~hw.done[i]) => t = STATE11
          /\ (s = STATE01 /\ hw.ready[i] /\ hw.done[i]) => t = STATE10
          /\ (s = STATE11 /\ hw.done[i]) => t = STATE10
          /\ (s = STATE10 /\ DoneUpper(i)) => t = STATE00
          /\ ~ \/ s = STATE00 /\ StartUpper(i)
               \/ s = STATE01 /\ hw.ready[i]
               \/ s = STATE11 /\ hw.done[i]
               \/ s = STATE10 /\ DoneUpper(i)
             => t = s

C12_Stage0(q, i) ==
  /\ q.start[i] = (q.state[i] = STATE01)
  /\ q.is_done_q[i][1] = (q.state[i] = STATE10)
  /\ Len(q.is_done_q[i]) = q.register_level + 1

C13_GlobalTransitions ==
  [][LET s == hw.tapa_state
         t == hw'.tapa_state
         all_done == \A i \in RunChildren : Last(hw.is_done_q[i])
     IN IF hw.ap_rst_n_inv THEN t = STATE00
        ELSE /\ s = STATE00 => (t = STATE01) = Last(hw.start_q)
             /\ s = STATE00 => t \in {STATE00, STATE01}
             /\ s = STATE01 => (t = STATE10) = all_done
             /\ s = STATE01 => t \in {STATE01, STATE10}
             /\ s = STATE10 =>
                  /\ hw'.countdown = hw.register_level
                  /\ t = (IF hw.register_level = 0 THEN STATE00 ELSE STATE11)
             /\ (s = STATE11 /\ hw.countdown > 1) =>
                  t = STATE11 /\ hw'.countdown = hw.countdown - 1
             /\ (s = STATE11 /\ hw.countdown = 1) => t = STATE00]_vars

\* C14: the done output of the upper-level module equals bit 1 of the state
\* (asserted exactly in states 10 and 11) and its idle output is asserted
\* exactly in state 00.
C14_DoneIsStateBit1 ==
  hw # None =>
    /\ hw.ap_done = (hw.tapa_state \in {STATE10, STATE11})
    /\ hw.ap_idle = (hw.tapa_state = STATE00)

C19_Start(i) ==
  /\ ~Reset(i) =>
       /\ hw.state[i] = STATE00 => hw'.start[i] = StartUpper(i)
       /\ (hw.start[i] /\ ~hw.ready[i]) => hw'.start[i]
       /\ (hw.start[i] /\ hw.ready[i]) => ~hw'.start[i]
  /\ (hw'.start[i] /\ ~hw.start[i]) => hw.state[i] = STATE00
  /\ hw'.state[i] = STATE00 =>
       \/ Reset(i)
       \/ hw.state[i] = STATE00
       \/ hw.state[i] = STATE10 /\ DoneUpper(i)

C19_StartedOncePerRun == [][\A i \in RunChildren : C19_Start(i)]_vars

\* a started child waits for done_upper while start_upper is still asserted
C19_Witness ==
  /\ hw # None
  /\ \E i \in RunChildren :
        /\ hw.state[i] = STATE10
        /\ ~hw.start[i]
        /\ StartUpper(i)
        /\ DoneUpper(i)
        /\ ~Reset(i)

\* C20: the start register of an autorun instance is cleared by the pipelined
\* reset, set on the clock edge after the pipelined global start is asserted
\* and then keeps its value until the next reset; the 01->10 transition of
\* the upper level depends on the is_done of the non-autorun instances only
\* and is unconditional when there is none.
C20_AutorunStart ==
  [][/\ \A i \in AutorunChildren :
          /\ Reset(i) => ~hw'.start[i]
          /\ (~Reset(i) /\ StartUpper(i)) => hw'.start[i]
          /\ (~Reset(i) /\ ~StartUpper(i)) => hw'.start[i] = hw.start[i]
     /\ (hw.tapa_state = STATE01 /\ ~hw.ap_rst_n_inv) =>
          (hw'.tapa_state = STATE10) =
             (\A i \in RunChildren : Last(hw.is_done_q[i]))
     /\ (hw.tapa_state = STATE01 /\ ~hw.ap_rst_n_inv /\ RunChildren = {}) =>
          hw'.tapa_state = STATE10]_vars

\* an upper-level module with autorun children only has finished a run and is
\* idle again while its children keep running without a new start
C20_Witness ==
  /\ hw # None
  /\ Children # {}
  /\ RunChildren = {}
  /\ hw.tapa_state = STATE00
  /\ \A i \in Children : hw.start[i] /\ ~StartUpper(i) /\ ~Reset(i)

(***************************************************************************)
(* Properties of index_generator (specification SpecGen).                  *)
(***************************************************************************)
\* the product of the factors after dimension i
RECURSIVE Stride(_, _)
Stride(factors, i) ==
  IF i >= Len(factors) THEN 1 ELSE factors[i + 1] * Stride(factors, i + 1)

\* the index of dimension i in the k-th tuple (from 0) in row-major order
RowMajor(factors, k, i) == (k \div Stride(factors, i)) % factors[i]

\* the indices of the dimensions whose factor is not 1, each followed by "_"
RECURSIVE RowMajorString(_, _, _)
RowMajorString(factors, k, i) ==
  IF i > Len(factors) THEN <<>>
  ELSE (IF factors[i] = 1 THEN <<>>
        ELSE str(RowMajor(factors, k, i)) \o <<"_">>)
       \o RowMajorString(factors, k, i + 1)

\* C16: index_generator yields prod(factors) strings, the k-th being the
\* k-th index tuple in row-major order written as the indices of the
\* dimensions whose factor is not 1, each followed by "_" (the empty string
\* when every factor is 1), and the yielded strings are pairwise distinct.
C16_RowMajorStrings ==
  gen # None =>
    LET n == Len(gen.yielded) IN
    /\ n <= TotalItems(gen.factors)
    /\ gen.exhausted => n = TotalItems(gen.factors)
    /\ \A k \in 1..n : gen.yielded[k] = RowMajorString(gen.factors, k - 1, 1)
    /\ \A k \in 1..(n - 1) : gen.yielded[k] # gen.yielded[n]
    /\ (\A i \in 1..Len(gen.factors) : gen.factors[i] = 1) =>
         \A k \in 1..n : gen.yielded[k] = <<>>

\* [2, 3] has yielded 0_0_, 0_1_, 0_2_, 1_0_, 1_1_, 1_2_
C16_Witness ==
  /\ gen # None
  /\ gen.factors = <<2, 3>>
  /\ gen.exhausted
  /\ gen.yielded = << <<"0", "_", "0", "_">>, <<"0", "_", "1", "_">>,
                      <<"0", "_", "2", "_">>, <<"1", "_", "0", "_">>,
                      <<"1", "_", "1", "_">>, <<"1", "_", "2", "_">> >>

\* a two-digit index next to a dimension of factor 1
C16_WitnessDigits ==
  /\ gen # None
  /\ gen.factors = <<11, 1>>
  /\ gen.exhausted
  /\ gen.yielded[11] = <<"1", "0", "_">>

(***************************************************************************)
(* Properties of the task graph (specification SpecGraph).                 *)
(***************************************************************************)
VertexOf(vs, name) == vs[KeyIndex(vs, name)]

HandsHbmPortList(cfg) ==
  (is_u280(cfg.part_num) \/ is_u50(cfg.part_num)) /\ cfg.enable_hbm_binding_adjustment

\* C18: the returned document has new_hbm_binding exactly when the part is
\* an HBM device (prefix xcu280 or xcu50) and enable_hbm_binding_adjustment
\* is set, that is, in the runs in which the HBM port list was handed to
\* the floorplanner.
C18_HbmBindingIffHbmDevice ==
  Succeeded =>
    (Get(result).new_hbm_binding # None) = HandsHbmPortList(config)

(***************************************************************************)
(* Properties of the depth adjustment loop (specification SpecAdjust).     *)
(***************************************************************************)
C21_IsFifo(fs, name) == \E k \in 1..Len(fs) : fs[k].name = name

\* gs is fs with the depth of the FIFO called name set and nothing else changed
C21_OnlySet(fs, gs, name, depth) ==
  /\ Len(gs) = Len(fs)
  /\ \A k \in 1..Len(fs) :
        gs[k] = IF fs[k].name = name THEN [fs[k] EXCEPT !.depth = depth] ELSE fs[k]

\* the FIFO of the top task that an entry of the floorplan result names:
\* the FIFO of that name, or else the one of the name with _N for [N]
C21_Named(fs, f2d, name) ==
  \E j \in 1..Len(f2d) :
     \/ f2d[j].name = name
     \/ ~C21_IsFifo(fs, f2d[j].name) /\ streams_fifo_name(f2d[j].name) = name

\* C21: every entry (fifo_name, depth) of the floorplan result sets the depth
\* of the FIFO fifo_name of the top task and of no other FIFO; if there is no
\* such FIFO, it sets the depth of the FIFO whose name is fifo_name with the
\* trailing _N rewritten to [N] and of no other; if there is no such FIFO
\* either, it changes no FIFO and the loop goes on to the next entry.  A FIFO
\* that no entry names keeps the depth it was constructed with.
C21_DepthFrame ==
  [][LET e == adj.fifo_to_depth[adj.i + 1]
     IN /\ adj.i < Len(adj.fifo_to_depth)
        /\ adj'.i = adj.i + 1
        /\ adj'.fifo_to_depth = adj.fifo_to_depth
        /\ IF C21_IsFifo(adj.fifos, e.name)
           THEN C21_OnlySet(adj.fifos, adj'.fifos, e.name, e.depth)
           ELSE IF C21_IsFifo(adj.fifos, streams_fifo_name(e.name))
           THEN C21_OnlySet(adj.fifos, adj'.fifos, streams_fifo_name(e.name), e.depth)
           ELSE adj'.fifos = adj.fifos
        /\ \A k \in 1..Len(adj.constructed) :
              ~C21_Named(adj.constructed, adj.fifo_to_depth, adj.constructed[k].name)
                 => adj'.fifos[k] = adj.constructed[k]]_vars

\* the loop has skipped an unrecognized entry and gone on to an entry that
\* names a streams element by its _N name; another FIFO is named by no entry
C21_Witness ==
  /\ adj # None
  /\ adj.i = Len(adj.fifo_to_depth)
  /\ adj.critical # <<>>
  /\ \E j \in 2..Len(adj.fifo_to_depth), k \in 1..Len(adj.fifos) :
        /\ adj.fifo_to_depth[j - 1].name \in Range(adj.critical)
        /\ adj.fifo_to_depth[j].name # adj.fifos[k].name
        /\ streams_fifo_name(adj.fifo_to_depth[j].name) = adj.fifos[k].name
        /\ ~C21_IsFifo(adj.fifos, adj.fifo_to_depth[j].name)
        /\ adj.fifos[k].depth = adj.fifo_to_depth[j].depth
        /\ adj.fifos[k].depth # adj.constructed[k].depth
  /\ \E k \in 1..Len(adj.fifos) :
        ~C21_Named(adj.constructed, adj.fifo_to_depth, adj.fifos[k].name)

=============================================================================
